---- MODULE Spec2Model ----
(***************************************************************************)
(* Model of the batch translation pipeline of ai-translator.               *)
(*                                                                         *)
(*  - Spec / LiveSpec: the job orchestrator of src/main.py                 *)
(*    (create_all_batches, then monitor_and_download_results) running      *)
(*    against the remote batch service reached through src/translator.py.  *)
(*  - PackSpec: the batch-file packing loop of file_to_jsonl.              *)
(***************************************************************************)
EXTENDS Integers, Sequences, FiniteSets, TLC

(* ------------------------------ bounds -------------------------------- *)

\* Number of uploaded input files handed to create_all_batches.
NumFiles == 3

\* Number of failures the remote service may report with the
\* enqueued-token-limit message (quota failures are finitely many).
MaxQuotaFailures == 2

\* The same two bounds for the specification with fairness.
LiveFiles == 2

LiveQuotaFailures == 2

(* ------------------------- program constants -------------------------- *)

\* The admission limit of create_all_batches: "if active_batches < 2".
K == 2

VARIABLES
    \* ---- remote service ----
    jobs,             \* Seq of [file, status]: job id j is jobs[j]
    quota_left,       \* quota failures the service may still report
    \* ---- src/main.py ----
    pc,               \* control point of main()
    pending_files,    \* create_all_batches: pending_files
    batch_ids,        \* batch_ids (the local active set)
    retry_batches,    \* monitor_and_download_results: retry_batches
    poll_todo,        \* rest of the copy batch_ids[:] being iterated
    drain_todo,       \* rest of the copy retry_batches[:] being iterated
    batch_status,     \* the answer of check_batch_status being handled
    output_files,     \* job ids whose output_<id>.jsonl was written
    \* ---- file_to_jsonl ----
    fpc,
    text_chunks,
    system_tokens,
    max_tokens_per_batch,
    max_requests_per_file,
    current_batch_tokens,
    current_batch_requests,
    file_count,
    request_count,
    global_request_id,
    batch_files,
    \* ---- text functions of src/translator.py ----
    tpc,              \* control point of the text functions
    input_text,       \* the text read from the input file
    raw_data,         \* raw_data after extract_html_tags (the masked text)
    tag_dict,         \* tag_dict: list of [key, tag] in insertion order
    restored,         \* result of restore_img_tags
    max_tokens,       \* split_text_into_chunks_with_tags: its max_tokens
    parts,            \* the parts of re.split still to be visited
    chunks,
    current_chunk,
    current_chunk_length,
    max_tokens_per_request,  \* file_to_jsonl: its max_tokens_per_request
    jsonl_files,      \* the .jsonl files of the output directory, by name
    merged_data,      \* merge_jsonl_files: all_requests
    sorted_data,      \* jsonl_to_csv_manual: sorted_data
    outfile           \* the text written to output_csv_file

ovars == <<jobs, quota_left, pc, pending_files, batch_ids, retry_batches,
           poll_todo, drain_todo, batch_status, output_files>>

pvars == <<fpc, text_chunks, system_tokens, max_tokens_per_batch,
           max_requests_per_file, current_batch_tokens,
           current_batch_requests, file_count, request_count,
           global_request_id, batch_files>>

cvars == <<max_tokens, parts, chunks, current_chunk, current_chunk_length>>

mvars == <<max_tokens_per_request, jsonl_files, merged_data, sorted_data,
           outfile>>

tvars == <<tpc, input_text, raw_data, tag_dict, restored, cvars, mvars>>

vars == <<ovars, pvars, tvars>>

(* ----------------------------- helpers -------------------------------- *)

Range(s) == {s[i] : i \in 1..Len(s)}

\* list.remove(x): drops the first occurrence of x.
RECURSIVE Remove(_, _)
Remove(s, x) ==
    IF s = <<>> THEN <<>>
    ELSE IF Head(s) = x THEN Tail(s)
    ELSE <<Head(s)>> \o Remove(Tail(s), x)

\* The statuses both loops of main.py count as active.
ActiveStatuses == {"in_progress", "cancelling", "finalizing", "validating"}

\* Jobs of the remote service that are in an active status.
ActiveJobs == {j \in 1..Len(jobs) : jobs[j].status \in ActiveStatuses}

(* ----------------- remote service (RemoteServiceClient) ---------------- *)

\* errors.data[].message values the service reports for a failed job.
TokenLimitMessage == "Enqueued token limit reached for gpt-4o. Limit: 90,000 enqueued tokens."

OtherMessage == "Invalid JSON line"

NoMessage == "No error message provided"

\* errors.data of a failed job, as message lists.
ErrorLists == {<<>>, <<TokenLimitMessage>>, <<OtherMessage>>,
               <<OtherMessage, TokenLimitMessage>>}

\* A failure is a quota failure when one of its messages is the token-limit one.
IsQuotaFailure(errors) == \E i \in 1..Len(errors) : errors[i] = TokenLimitMessage

\* check_batch_status returned None (the request failed); also the value of
\* batch_status while no answer is being handled.
NoStatus == [status |-> "None", output_file_id |-> 0, input_file_id |-> 0,
             errors |-> <<>>]

\* The batch objects check_batch_status(j) can return now.  output_file_id
\* and input_file_id are file ids, 0 standing for an absent (null) field; the
\* output file of job j is named j.
StatusResponses(j) ==
    LET job == jobs[j] IN
    IF job.status = "completed"
    THEN {[status |-> "completed", output_file_id |-> o,
           input_file_id |-> job.file, errors |-> <<>>] : o \in {0, j}}
    ELSE IF job.status = "failed"
    THEN {[status |-> "failed", output_file_id |-> 0,
           input_file_id |-> job.file, errors |-> e] :
             e \in {l \in ErrorLists : IsQuotaFailure(l) => quota_left > 0}}
    ELSE {[status |-> job.status, output_file_id |-> 0,
           input_file_id |-> job.file, errors |-> <<>>]}

\* manage_batches(): the id/status listing, or [] when check_active_batches
\* returned None.
ManageBatches(ok) ==
    IF ok THEN [j \in 1..Len(jobs) |-> [id |-> j, status |-> jobs[j].status]]
    ELSE <<>>

\* len([b for b in manage_batches() if b["status"] in [...]])
CountActive(listing) ==
    Cardinality({i \in 1..Len(listing) : listing[i].status \in ActiveStatuses})

\* create_batch(file_id) accepted by the service: a new job, validating.
CreatedJobs(file_id) == Append(jobs, [file |-> file_id, status |-> "validating"])

\* The service moves a job along its lifecycle: a job fails validation or
\* runs to completion.  Nobody cancels a job (cancel_batch is not called by
\* main()), and no job expires.
RemoteProgress(j) ==
    /\ j \in 1..Len(jobs)
    /\ \E s \in {"in_progress", "finalizing", "completed", "failed"} :
         /\ \/ jobs[j].status = "validating" /\ s \in {"in_progress", "failed"}
            \/ jobs[j].status = "in_progress" /\ s = "finalizing"
            \/ jobs[j].status = "finalizing" /\ s = "completed"
         /\ jobs' = [jobs EXCEPT ![j].status = s]
    /\ UNCHANGED <<quota_left, pc, pending_files, batch_ids, retry_batches,
                   poll_todo, drain_todo, batch_status, output_files>>
    /\ UNCHANGED <<pvars, tvars>>

(* ------------------------------ main.py -------------------------------- *)

\* create_all_batches: "if active_batches < 2"
AdmitAllowed(n) == n < K

\* One round of the while loop of create_all_batches: the listing, and for
\* fewer than K active jobs the pop of the next file and create_batch.
CreateNextBatch(lok, cok) ==
    /\ pc = "admit"
    /\ pending_files # <<>>
    /\ LET active_batches == CountActive(ManageBatches(lok)) IN
       IF AdmitAllowed(active_batches)
       THEN /\ pending_files' = Tail(pending_files)
            /\ IF cok
               THEN /\ jobs' = CreatedJobs(Head(pending_files))
                    /\ batch_ids' = Append(batch_ids, Len(jobs) + 1)
               ELSE UNCHANGED <<jobs, batch_ids>>
       ELSE UNCHANGED <<pending_files, jobs, batch_ids>>
    /\ UNCHANGED <<quota_left, pc, retry_batches, poll_todo, drain_todo,
                   batch_status, output_files>>
    /\ UNCHANGED <<pvars, tvars>>

\* create_all_batches returns; monitor_and_download_results starts with
\* retry_batches = [].
StartMonitor ==
    /\ pc = "admit"
    /\ pending_files = <<>>
    /\ pc' = "loop"
    /\ retry_batches' = <<>>
    /\ UNCHANGED <<jobs, quota_left, pending_files, batch_ids, poll_todo,
                   drain_todo, batch_status, output_files>>
    /\ UNCHANGED <<pvars, tvars>>

LoopWhileBatches == batch_ids # <<>>

\* "while batch_ids or retry_batches:"
LoopAgain == batch_ids # <<>> \/ retry_batches # <<>>

\* The loop test and the copy batch_ids[:] of the for loop.
MonitorLoop ==
    /\ pc = "loop"
    /\ IF LoopAgain
       THEN pc' = "poll" /\ poll_todo' = batch_ids
       ELSE pc' = "done" /\ UNCHANGED poll_todo
    /\ UNCHANGED <<jobs, quota_left, pending_files, batch_ids, retry_batches,
                   drain_todo, batch_status, output_files>>
    /\ UNCHANGED <<pvars, tvars>>

\* batch_status = check_batch_status(batch_id) for the next batch of the copy.
CheckBatchStatus(status) ==
    /\ pc = "poll"
    /\ poll_todo # <<>>
    /\ status \in StatusResponses(Head(poll_todo)) \cup {NoStatus}
    /\ batch_status' = status
    /\ quota_left' = IF IsQuotaFailure(status.errors)
                     THEN quota_left - 1 ELSE quota_left
    /\ pc' = "handle"
    /\ UNCHANGED <<jobs, pending_files, batch_ids, retry_batches, poll_todo,
                   drain_todo, output_files>>
    /\ UNCHANGED <<pvars, tvars>>

\* errors[0].get("message", ...) if errors else "No error message provided"
ErrorMessage(errors) == IF errors # <<>> THEN errors[1] ELSE NoMessage

HasOutputAlways(status) == TRUE

\* "if output_file_id:"
HasOutput(status) == status.output_file_id # 0

\* "Enqueued token limit reached" in error_message
MentionsTokenLimit(error_message) == error_message = TokenLimitMessage

RetryQueueAfterAnyFailure(status) ==
    Append(retry_batches, status.input_file_id)

\* retry_batches after a failed status: the input file id is appended when
\* the error message is the token-limit one ("if input_file_id:").
RetryQueueAfterFailure(status) ==
    IF MentionsTokenLimit(ErrorMessage(status.errors)) /\ status.input_file_id # 0
    THEN Append(retry_batches, status.input_file_id)
    ELSE retry_batches

\* The if/elif chain on batch_status, up to the download request of a
\* completed job.
HandleStatus ==
    /\ pc = "handle"
    /\ LET batch_id == Head(poll_todo) IN
       IF batch_status.status = "completed" /\ HasOutput(batch_status)
       THEN /\ pc' = "download"
            /\ UNCHANGED <<batch_ids, retry_batches, poll_todo, batch_status>>
       ELSE /\ pc' = "poll"
            /\ poll_todo' = Tail(poll_todo)
            /\ batch_status' = NoStatus
            /\ batch_ids' = IF batch_status.status \in {"completed", "failed"}
                            THEN Remove(batch_ids, batch_id)
                            ELSE batch_ids
            /\ retry_batches' = IF batch_status.status = "failed"
                                THEN RetryQueueAfterFailure(batch_status)
                                ELSE retry_batches
    /\ UNCHANGED <<jobs, quota_left, pending_files, drain_todo, output_files>>
    /\ UNCHANGED <<pvars, tvars>>

\* download_batch_results(output_file_id, output_filename), whose result is
\* not looked at, then batch_ids.remove(batch_id).
DownloadResults(dok) ==
    /\ pc = "download"
    /\ LET batch_id == Head(poll_todo) IN
       /\ output_files' = IF dok THEN output_files \cup {batch_id}
                          ELSE output_files
       /\ batch_ids' = Remove(batch_ids, batch_id)
    /\ poll_todo' = Tail(poll_todo)
    /\ batch_status' = NoStatus
    /\ pc' = "poll"
    /\ UNCHANGED <<jobs, quota_left, pending_files, retry_batches, drain_todo>>
    /\ UNCHANGED <<pvars, tvars>>

\* "if active_batches == 0:" -- the barrier before the retry queue is drained.
DrainAllowed(n) == n = 0

DrainDueWithBatches == retry_batches # <<>>

\* "if not batch_ids and retry_batches:"
DrainDue == batch_ids = <<>> /\ retry_batches # <<>>

\* After the for loop: the listing, the barrier, and the copy
\* retry_batches[:].
CheckRetry(lok) ==
    /\ pc = "poll"
    /\ poll_todo = <<>>
    /\ IF DrainDue /\ DrainAllowed(CountActive(ManageBatches(lok)))
       THEN pc' = "drain" /\ drain_todo' = retry_batches
       ELSE pc' = "loop" /\ UNCHANGED drain_todo
    /\ UNCHANGED <<jobs, quota_left, pending_files, batch_ids, retry_batches,
                   poll_todo, batch_status, output_files>>
    /\ UNCHANGED <<pvars, tvars>>

RetryQueueKept(input_file_id, cok) == retry_batches

RetryQueueAfterAnyCreate(input_file_id, cok) ==
    Remove(retry_batches, input_file_id)

\* retry_batches after create_batch answered for input_file_id:
\* "if retry_batch_id: ... retry_batches.remove(input_file_id)".
RetryQueueAfterCreate(input_file_id, cok) ==
    IF cok THEN Remove(retry_batches, input_file_id) ELSE retry_batches

\* The body of "for input_file_id in retry_batches[:]" for one entry.
RetryBatch(cok) ==
    /\ pc = "drain"
    /\ drain_todo # <<>>
    /\ LET input_file_id == Head(drain_todo) IN
       /\ IF cok
          THEN /\ jobs' = CreatedJobs(input_file_id)
               /\ batch_ids' = Append(batch_ids, Len(jobs) + 1)
          ELSE UNCHANGED <<jobs, batch_ids>>
       /\ retry_batches' = RetryQueueAfterCreate(input_file_id, cok)
    /\ drain_todo' = Tail(drain_todo)
    /\ pc' = IF Tail(drain_todo) = <<>> THEN "loop" ELSE "drain"
    /\ UNCHANGED <<quota_left, pending_files, poll_todo, batch_status,
                   output_files>>
    /\ UNCHANGED <<pvars, tvars>>

(* ----------------------- file_to_jsonl (packing) ----------------------- *)

\* Largest number of chunks handed to the packing loop.
MaxChunks == 3

\* total_tokens = system_tokens + len(chunk_tokens) + 100
RequestOverhead == 100

\* Token counts of a chunk, of the system message, and the configurations
\* (max_tokens_per_batch, max_requests_per_file) the loop is run with.
ChunkTokenCounts == {10, 80, 300}

SystemTokenCounts == {20}

TokenBudgets == {300, 450}

RequestCaps == {1, 2}

RECURSIVE SeqsUpTo(_, _)
SeqsUpTo(S, n) ==
    IF n = 0 THEN {<<>>}
    ELSE LET shorter == SeqsUpTo(S, n - 1) IN
         shorter \cup {Append(s, x) : s \in shorter, x \in S}

TotalTokens(chunk_tokens) == system_tokens + chunk_tokens + RequestOverhead

\* The cost of a written batch file, request by request.
RECURSIVE FileTokens(_)
FileTokens(requests) ==
    IF requests = <<>> THEN 0
    ELSE TotalTokens(Head(requests).chunk_tokens) + FileTokens(Tail(requests))

\* "current_batch_tokens + total_tokens > max_tokens_per_batch
\*  or request_count >= max_requests_per_file"
MustSeal(total_tokens) ==
    \/ current_batch_tokens + total_tokens > max_tokens_per_batch
    \/ request_count >= max_requests_per_file

\* open(batch_requests_part_<file_count>.jsonl, "w") and the writes.
WriteFile(requests) == (file_count :> requests) @@ batch_files

CustomIdPerFile(seal) == IF seal THEN 1 ELSE request_count + 1

\* "custom_id": f"request-{global_request_id}"
CustomId(seal) == global_request_id

\* One round of "for chunk in text_chunks".
PackChunk ==
    /\ fpc = "pack"
    /\ text_chunks # <<>>
    /\ LET chunk_tokens == Head(text_chunks)
           total_tokens == TotalTokens(chunk_tokens)
           seal == MustSeal(total_tokens)
           request == [custom_id |-> CustomId(seal),
                       chunk_tokens |-> chunk_tokens]
       IN
       /\ batch_files' = IF seal THEN WriteFile(current_batch_requests)
                         ELSE batch_files
       /\ file_count' = IF seal THEN file_count + 1 ELSE file_count
       /\ current_batch_requests' =
             Append(IF seal THEN <<>> ELSE current_batch_requests, request)
       /\ current_batch_tokens' =
             (IF seal THEN 0 ELSE current_batch_tokens) + total_tokens
       /\ request_count' = (IF seal THEN 0 ELSE request_count) + 1
       /\ global_request_id' = global_request_id + 1
    /\ text_chunks' = Tail(text_chunks)
    /\ UNCHANGED <<fpc, system_tokens, max_tokens_per_batch,
                   max_requests_per_file>>
    /\ UNCHANGED <<ovars, tvars>>

\* "if current_batch_requests:" after the loop: the last file.
WriteLastFile ==
    /\ fpc = "pack"
    /\ text_chunks = <<>>
    /\ fpc' = "packed"
    /\ batch_files' = IF current_batch_requests # <<>>
                      THEN WriteFile(current_batch_requests)
                      ELSE batch_files
    /\ UNCHANGED <<text_chunks, system_tokens, max_tokens_per_batch,
                   max_requests_per_file, current_batch_tokens,
                   current_batch_requests, file_count, request_count,
                   global_request_id>>
    /\ UNCHANGED <<ovars, tvars>>

(* ------------------ strings, extract_html_tags, restore ---------------- *)

\* A text is a sequence of characters, each a one-character string.
DigitChars == <<"0", "1", "2", "3", "4", "5", "6", "7", "8", "9">>

IsDigit(c) == c \in Range(DigitChars)

\* \w of the re module, over the characters the texts are made of.
IsWord(c) ==
    \/ IsDigit(c)
    \/ c \in {"a", "b", "d", "e", "g", "l", "o", "r", "t", "w", "H", "_"}

\* str(n) for n >= 0: the decimal digits.
RECURSIVE Digits(_)
Digits(n) ==
    IF n < 10 THEN <<DigitChars[n + 1]>>
    ELSE Digits(n \div 10) \o <<DigitChars[(n % 10) + 1]>>

DigitValue(c) == (CHOOSE i \in 1..10 : DigitChars[i] = c) - 1

\* int(ds) for a digit string.
RECURSIVE ParseInt(_)
ParseInt(ds) ==
    IF ds = <<>> THEN 0
    ELSE 10 * ParseInt(SubSeq(ds, 1, Len(ds) - 1)) + DigitValue(ds[Len(ds)])

Min(S) == CHOOSE x \in S : \A y \in S : x <= y

\* Length of the run of digits that starts at s[i].
DigitRun(s, i) ==
    LET stop == {j \in i..Len(s) : ~IsDigit(s[j])} IN
    IF i > Len(s) THEN 0
    ELSE IF stop = {} THEN Len(s) + 1 - i ELSE Min(stop) - i

\* Length of the run of \w characters that starts at s[i].
WordRun(s, i) ==
    LET stop == {j \in i..Len(s) : ~IsWord(s[j])} IN
    IF i > Len(s) THEN 0
    ELSE IF stop = {} THEN Len(s) + 1 - i ELSE Min(stop) - i

\* re.search(r"\d+", s).group(): the first run of digits of s.
FirstDigits(s) ==
    LET at == Min({j \in 1..Len(s) : IsDigit(s[j])}) IN
    SubSeq(s, at, at + DigitRun(s, at) - 1)

\* s has pat at position i.
HasAt(s, i, pat) ==
    i + Len(pat) - 1 <= Len(s) /\ SubSeq(s, i, i + Len(pat) - 1) = pat

\* str.replace(pat, rep) from position i on (pat is not empty): the
\* occurrences are taken from left to right and do not overlap.
RECURSIVE ReplaceFrom(_, _, _, _)
ReplaceFrom(s, i, pat, rep) ==
    LET found == {j \in i..Len(s) : HasAt(s, j, pat)} IN
    IF found = {} THEN SubSeq(s, i, Len(s))
    ELSE SubSeq(s, i, Min(found) - 1) \o rep
           \o ReplaceFrom(s, Min(found) + Len(pat), pat, rep)

Replace(s, pat, rep) == ReplaceFrom(s, 1, pat, rep)

\* f"{{{{tag_{n}}}}}": the placeholder "{{tag_n}}".
TagId(n) == <<"{", "{", "t", "a", "g", "_">> \o Digits(n) \o <<"}", "}">>

\* Position of the first ">" at or after s[i], 0 when there is none.
FirstClose(s, i) ==
    LET close == {j \in i..Len(s) : s[j] = ">"} IN
    IF close = {} THEN 0 ELSE Min(close)

\* Length of the match of
\*   <[^>]+>|\n|\"|\b\d+\|\|\|\d+\b|\b\d+\|\|\|\d+\w*
\* that starts at s[i], 0 when none does.
MatchLen(s, i) ==
    IF s[i] = "<"
    THEN LET j == FirstClose(s, i + 1) IN
         IF j > i + 1 THEN j - i + 1 ELSE 0
    ELSE IF s[i] \in {"\n", "\""} THEN 1
    ELSE IF IsDigit(s[i]) /\ (i = 1 \/ ~IsWord(s[i - 1]))
    THEN LET d == DigitRun(s, i) IN
         IF HasAt(s, i + d, <<"|", "|", "|">>) /\ DigitRun(s, i + d + 3) > 0
         THEN d + 3 + WordRun(s, i + d + 3)
         ELSE 0
    ELSE 0

NeverSeen(tag, dict) == TRUE

\* "if tag not in tag_dict.values():"
NotSeen(tag, dict) == \A k \in 1..Len(dict) : dict[k].tag # tag

\* "for existing_id, existing_tag in tag_dict.items(): if existing_tag == tag"
ExistingId(tag, dict) ==
    dict[CHOOSE k \in 1..Len(dict) :
           dict[k].tag = tag /\ \A m \in 1..(k - 1) : dict[m].tag # tag].key

\* re.sub(pattern, replacement, text) from position i on, with the closure
\* state of replacement(): tag_dict and tag_id_counter. The matches are
\* taken from left to right and do not overlap.
RECURSIVE ExtractFrom(_, _, _, _, _)
ExtractFrom(s, i, dict, tag_id_counter, out) ==
    LET found == {j \in i..Len(s) : MatchLen(s, j) > 0} IN
    IF found = {} THEN [text |-> out \o SubSeq(s, i, Len(s)), tag_dict |-> dict]
    ELSE LET at == Min(found)
             n == MatchLen(s, at)
             tag == SubSeq(s, at, at + n - 1)
             plain == out \o SubSeq(s, i, at - 1)
         IN IF NotSeen(tag, dict)
            THEN LET tag_id == TagId(tag_id_counter) IN
                 ExtractFrom(s, at + n,
                             Append(dict, [key |-> tag_id, tag |-> tag]),
                             tag_id_counter + 1, plain \o tag_id)
            ELSE ExtractFrom(s, at + n, dict, tag_id_counter,
                             plain \o ExistingId(tag, dict))

\* extract_html_tags(text): the masked text and tag_dict.
ExtractHtmlTags(text) == ExtractFrom(text, 1, <<>>, 1, <<>>)

\* key=lambda x: int(re.search(r"\d+", x[0]).group())
TagNumber(item) == ParseInt(FirstDigits(item.key))

\* sorted(..., key=...) over records that carry their key as num: a stable
\* sort, by insertion.
RECURSIVE InsertByNum(_, _)
InsertByNum(sorted, x) ==
    IF sorted = <<>> THEN <<x>>
    ELSE IF sorted[Len(sorted)].num <= x.num THEN Append(sorted, x)
    ELSE Append(InsertByNum(SubSeq(sorted, 1, Len(sorted) - 1), x),
                sorted[Len(sorted)])

RECURSIVE SortByNum(_)
SortByNum(s) ==
    IF s = <<>> THEN <<>>
    ELSE InsertByNum(SortByNum(SubSeq(s, 1, Len(s) - 1)), s[Len(s)])

\* "for tag_id, tag in sorted_tags: text = text.replace(tag_id, tag)"
RECURSIVE ReplaceAll(_, _, _)
ReplaceAll(text, sorted_tags, k) ==
    IF k > Len(sorted_tags) THEN text
    ELSE ReplaceAll(Replace(text, sorted_tags[k].key, sorted_tags[k].tag),
                    sorted_tags, k + 1)

\* restore_img_tags(text, tag_dict)
RestoreImgTags(text, dict) ==
    LET sorted_tags ==
          SortByNum([k \in 1..Len(dict) |->
                       [num |-> TagNumber(dict[k]), key |-> dict[k].key,
                        tag |-> dict[k].tag]])
    IN ReplaceAll(text, sorted_tags, 1)

\* The texts: up to MaxPieces pieces, each a run of plain text or a span of
\* one of the masked kinds, and one text with more than ten different spans.
MaxPieces == 3

Pieces ==
    { <<"a">>, <<" ">>, <<"\n">>, <<"\"">>,
      <<"<", "b", ">">>, <<"<", "/", "b", ">">>,
      <<"1", "|", "|", "|", "2">>,
      <<"{", "{", "t", "a", "g", "_", "1", "}", "}">> }

RECURSIVE Flatten(_)
Flatten(ps) == IF ps = <<>> THEN <<>> ELSE Head(ps) \o Flatten(Tail(ps))

ManySpans ==
    Flatten([k \in 1..11 |-> <<"<">> \o Digits(k) \o <<">", "a">>])
      \o <<"<", "1", ">", "\n", "<", "1", "0", ">">>

Texts == {Flatten(ps) : ps \in SeqsUpTo(Pieces, MaxPieces)} \cup {ManySpans}

\* file_to_jsonl: "raw_data, tag_dict = extract_html_tags(raw_data)"
ExtractTags ==
    /\ tpc = "read"
    /\ LET r == ExtractHtmlTags(input_text) IN
         /\ raw_data' = r.text
         /\ tag_dict' = r.tag_dict
    /\ tpc' = "masked"
    /\ UNCHANGED <<input_text, restored, cvars>>
    /\ UNCHANGED <<ovars, pvars, mvars>>

\* merge_jsonl_files: "restored_content = restore_img_tags(content, tag_dict)"
\* applied to the masked text as it stands.
RestoreTags ==
    /\ tpc = "masked"
    /\ restored' = RestoreImgTags(raw_data, tag_dict)
    /\ tpc' = "restored"
    /\ UNCHANGED <<input_text, raw_data, tag_dict, cvars>>
    /\ UNCHANGED <<ovars, pvars, mvars>>

(* ------------------- split_text_into_chunks_with_tags ------------------ *)

\* count_tokens(text): the tokenizer is the tiktoken library; it is taken
\* to give one token for each character.
CountTokens(text) == Len(text)

\* Length of the match of \{\{tag_\d+\}\} that starts at s[i], 0 when none
\* does.
PlaceholderLen(s, i) ==
    LET d == DigitRun(s, i + 6) IN
    IF /\ HasAt(s, i, <<"{", "{", "t", "a", "g", "_">>)
       /\ d > 0
       /\ HasAt(s, i + 6 + d, <<"}", "}">>)
    THEN d + 8 ELSE 0

\* re.split(r"(\{\{tag_\d+\}\})", s) from position i on: the texts between
\* the placeholders and the placeholders, empty texts included.
RECURSIVE SplitFrom(_, _)
SplitFrom(s, i) ==
    LET found == {j \in i..Len(s) : PlaceholderLen(s, j) > 0} IN
    IF found = {} THEN <<SubSeq(s, i, Len(s))>>
    ELSE LET at == Min(found)
             n == PlaceholderLen(s, at)
         IN <<SubSeq(s, i, at - 1), SubSeq(s, at, at + n - 1)>>
              \o SplitFrom(s, at + n)

ReSplit(s) == SplitFrom(s, 1)

Max(S) == CHOOSE x \in S : \A y \in S : y <= x

IsSpace(c) == c \in {" ", "\n"}

\* str.strip()
Strip(s) ==
    LET kept == {j \in 1..Len(s) : ~IsSpace(s[j])} IN
    IF kept = {} THEN <<>> ELSE SubSeq(s, Min(kept), Max(kept))

\* str.endswith(pat)
EndsWith(s, pat) ==
    Len(s) >= Len(pat) /\ SubSeq(s, Len(s) - Len(pat) + 1, Len(s)) = pat

\* "n > max_tokens * 0.9"
OverThreshold(n, max) == 10 * n > 9 * max

\* Lines 29-33: the split into parts and the empty first chunk.
StartChunks ==
    /\ tpc = "split"
    /\ parts' = ReSplit(raw_data)
    /\ chunks' = <<>>
    /\ current_chunk' = <<>>
    /\ current_chunk_length' = 0
    /\ tpc' = "parts"
    /\ UNCHANGED <<input_text, raw_data, tag_dict, restored, max_tokens>>
    /\ UNCHANGED <<ovars, pvars, mvars>>

\* One iteration of "for part in parts".
ChunkPart ==
    /\ tpc = "parts"
    /\ parts # <<>>
    /\ LET part == Head(parts)
           part_length == CountTokens(part)
           tag_1 == TagId(1)
       IN IF part = <<>>
          THEN UNCHANGED <<chunks, current_chunk, current_chunk_length>>
          ELSE IF OverThreshold(current_chunk_length + part_length, max_tokens)
          THEN IF EndsWith(current_chunk, tag_1)
               THEN /\ chunks' =
                         Append(chunks,
                                Strip(SubSeq(current_chunk, 1,
                                             Len(current_chunk) - Len(tag_1))))
                    /\ current_chunk' = tag_1 \o part
                    /\ current_chunk_length' = CountTokens(tag_1 \o part)
               ELSE /\ chunks' = Append(chunks, Strip(current_chunk))
                    /\ current_chunk' = part
                    /\ current_chunk_length' = part_length
          ELSE /\ current_chunk' = current_chunk \o part
               /\ current_chunk_length' = current_chunk_length + part_length
               /\ UNCHANGED chunks
    /\ parts' = Tail(parts)
    /\ UNCHANGED <<tpc, input_text, raw_data, tag_dict, restored, max_tokens>>
    /\ UNCHANGED <<ovars, pvars, mvars>>

\* Lines 55-58: the last chunk.
LastChunk ==
    /\ tpc = "parts"
    /\ parts = <<>>
    /\ chunks' = IF Strip(current_chunk) # <<>>
                 THEN Append(chunks, Strip(current_chunk))
                 ELSE chunks
    /\ tpc' = "chunked"
    /\ UNCHANGED <<input_text, raw_data, tag_dict, restored, max_tokens, parts,
                   current_chunk, current_chunk_length>>
    /\ UNCHANGED <<ovars, pvars, mvars>>

\* The texts given to the chunker: up to MaxParts pieces, each a text run
\* or a placeholder.
MaxParts == 4

ChunkPieces ==
    { <<"a">>, <<" ">>, <<"a", "a", "a", "a", "a">>, TagId(1), TagId(2) }

ChunkTexts == {Flatten(ps) : ps \in SeqsUpTo(ChunkPieces, MaxParts)}

MaxTokens == {5, 10, 20}

(* ---------------- merge_jsonl_files, jsonl_to_csv_manual --------------- *)

\* f"request-{n}"
RequestId(n) == <<"r", "e", "q", "u", "e", "s", "t", "-">> \o Digits(n)

\* A line of a downloaded output file: the custom_id of the request and the
\* choices of the response body.
ResponseLine(n, content) ==
    [custom_id |-> RequestId(n),
     choices |-> <<[role |-> "assistant", content |-> content]>>]

\* A line of a batch request file, which lies in the same directory: it has
\* a custom_id and no response.
RequestLine(n) == [custom_id |-> RequestId(n), choices |-> <<>>]

\* The entries one line adds to all_requests (lines 366-382).
RECURSIVE LineRequests(_, _, _)
LineRequests(line, k, dict) ==
    IF k > Len(line.choices) THEN <<>>
    ELSE (IF line.choices[k].role = "assistant"
          THEN <<[custom_id |-> line.custom_id,
                  content |-> RestoreImgTags(line.choices[k].content, dict)]>>
          ELSE <<>>)
           \o LineRequests(line, k + 1, dict)

RECURSIVE FileRequests(_, _)
FileRequests(lines, dict) ==
    IF lines = <<>> THEN <<>>
    ELSE LineRequests(Head(lines), 1, dict) \o FileRequests(Tail(lines), dict)

\* merge_jsonl_files(jsonl_dir): the files are read in the order of their
\* names.
RECURSIVE MergeFiles(_, _)
MergeFiles(files, dict) ==
    IF files = <<>> THEN <<>>
    ELSE FileRequests(Head(files), dict) \o MergeFiles(Tail(files), dict)

CustomIdFirstDigit(row) == DigitValue(Head(FirstDigits(row.custom_id)))

\* key=lambda x: int(re.search(r"\d+", x["custom_id"]).group())
CustomIdNumber(row) == ParseInt(FirstDigits(row.custom_id))

\* re.sub(r'\\"', "", content)
Cleaned(content) == Replace(content, <<"\\", "\"">>, <<>>)

\* jsonl_to_csv_manual, line 390.
MergeJsonlFiles ==
    /\ tpc = "downloaded"
    /\ merged_data' = MergeFiles(jsonl_files, tag_dict)
    /\ tpc' = "merged"
    /\ UNCHANGED <<input_text, raw_data, tag_dict, restored, cvars,
                   max_tokens_per_request, jsonl_files, sorted_data, outfile>>
    /\ UNCHANGED <<ovars, pvars>>

\* jsonl_to_csv_manual, lines 392-400.
WriteCsv ==
    /\ tpc = "merged"
    /\ LET sorted ==
             SortByNum([k \in 1..Len(merged_data) |->
                          [num |-> CustomIdNumber(merged_data[k]),
                           custom_id |-> merged_data[k].custom_id,
                           content |-> merged_data[k].content]])
       IN /\ sorted_data' = sorted
          /\ outfile' = Flatten([k \in 1..Len(sorted) |->
                                   Cleaned(sorted[k].content)])
    /\ tpc' = "written"
    /\ UNCHANGED <<input_text, raw_data, tag_dict, restored, cvars,
                   max_tokens_per_request, jsonl_files, merged_data>>
    /\ UNCHANGED <<ovars, pvars>>

\* The output directory before the merge: a request file and, after it by
\* name, up to MaxLines response lines with different custom ids, in any
\* order, cut into two files at any place.
MaxLines == 3

IdPool == {1, 2, 10, 11}

LineOrders ==
    {ids \in SeqsUpTo(IdPool, MaxLines) :
       \A k, m \in 1..Len(ids) : k # m => ids[k] # ids[m]}

LineContent(n) == <<"a">> \o Digits(n) \o <<"{", "{", "t", "a", "g", "_", "1", "}", "}">>

Directory(ids, cut) ==
    <<[k \in 1..Len(ids) |-> RequestLine(k)],
      [k \in 1..cut |-> ResponseLine(ids[k], LineContent(ids[k]))],
      [k \in 1..(Len(ids) - cut) |->
         ResponseLine(ids[cut + k], LineContent(ids[cut + k]))]>>

Directories ==
    UNION {{Directory(ids, cut) : cut \in 0..Len(ids)} : ids \in LineOrders}

(* ------------------ file_to_jsonl to jsonl_to_csv_manual --------------- *)

\* "max_tokens_per_request - system_tokens - 100"
SplitReserve == 100

\* json.dumps of a string, without the enclosing quotes.
RECURSIVE JsonDumps(_)
JsonDumps(str) ==
    IF str = <<>> THEN <<>>
    ELSE (IF Head(str) = "\n" THEN <<"\\", "n">>
          ELSE IF Head(str) \in {"\\", "\""} THEN <<"\\", Head(str)>>
          ELSE <<Head(str)>>)
           \o JsonDumps(Tail(str))

\* json.loads of it.
RECURSIVE JsonLoads(_)
JsonLoads(str) ==
    IF str = <<>> THEN <<>>
    ELSE IF Head(str) = "\\"
    THEN <<IF str[2] = "n" THEN "\n" ELSE str[2]>>
           \o JsonLoads(SubSeq(str, 3, Len(str)))
    ELSE <<Head(str)>> \o JsonLoads(Tail(str))

Reverse(q) == [k \in 1..Len(q) |-> q[Len(q) + 1 - k]]

\* file_to_jsonl, lines 123-135: the choice between the chunker and the
\* single request. In the single case text_chunks holds the list of token
\* numbers that encode() returned, and tokenizer.encode(chunk) at line 135
\* raises TypeError for it: the program ends there.
ChoosePath ==
    /\ tpc = "masked"
    /\ LET user_tokens == CountTokens(raw_data) IN
         IF user_tokens > max_tokens_per_request
         THEN /\ tpc' = "split"
              /\ max_tokens' =
                   max_tokens_per_request - system_tokens - SplitReserve
         ELSE /\ tpc' = "crashed"
              /\ UNCHANGED max_tokens
    /\ UNCHANGED <<input_text, raw_data, tag_dict, restored, parts, chunks,
                   current_chunk, current_chunk_length, mvars>>
    /\ UNCHANGED <<ovars, pvars>>

\* The requests of the chunks, with the custom ids 1..n in chunk order, are
\* written, uploaded and run by a service that returns the content of every
\* request as it was; the results are downloaded. The lines are cut into
\* two output files; the names of the files and the order of the lines in
\* them are the service's.
EchoJobs(cut, swapped, reversed) ==
    /\ tpc = "chunked"
    /\ LET lines == [k \in 1..Len(chunks) |->
                       ResponseLine(k, JsonLoads(JsonDumps(chunks[k])))]
           first == SubSeq(lines, 1, cut)
           second == SubSeq(lines, cut + 1, Len(lines))
           a == IF reversed THEN Reverse(first) ELSE first
           b == IF reversed THEN Reverse(second) ELSE second
       IN jsonl_files' =
            <<[k \in 1..Len(chunks) |-> RequestLine(k)],
              IF swapped THEN b ELSE a,
              IF swapped THEN a ELSE b>>
    /\ tpc' = "downloaded"
    /\ UNCHANGED <<input_text, raw_data, tag_dict, restored, cvars,
                   max_tokens_per_request, merged_data, sorted_data, outfile>>
    /\ UNCHANGED <<ovars, pvars>>

\* The input files: the texts of up to MaxFilePieces pieces, the text
\* "Hello <b>world</b>\n", and texts long enough to be split.
MaxFilePieces == 2

HelloWorld ==
    <<"H", "e", "l", "l", "o", " ", "<", "b", ">", "w", "o", "r", "l", "d",
      "<", "/", "b", ">", "\n">>

Repeated(unit, n) == Flatten([k \in 1..n |-> unit])

LongTexts ==
    { Repeated(<<"a", "a", "a", "\n", "<", "b", ">">>, 7),
      Repeated(<<"a", "a", "a", " ", "\n", "<", "b", ">">>, 7),
      <<"\n">> \o Repeated(<<"<", "b", ">", "\\", "\"">>, 7) }

FileTexts ==
    {Flatten(ps) : ps \in SeqsUpTo(Pieces, MaxFilePieces)}
      \cup {HelloWorld} \cup LongTexts

RequestLimits == {125, 140}

(* --------------------------- specifications ---------------------------- *)

\* main() before file_to_jsonl has run / after it has returned.
PackIdle ==
    /\ fpc = "packed"
    /\ text_chunks = <<>>
    /\ system_tokens = 0
    /\ max_tokens_per_batch = 0
    /\ max_requests_per_file = 0
    /\ current_batch_tokens = 0
    /\ current_batch_requests = <<>>
    /\ file_count = 1
    /\ request_count = 0
    /\ global_request_id = 1
    /\ batch_files = <<>>

\* create_all_batches(file_ids) is entered with the uploaded file ids.
OrchInit(files, quota) ==
    /\ jobs = <<>>
    /\ quota_left = quota
    /\ pc = "admit"
    /\ pending_files = [i \in 1..files |-> i]
    /\ batch_ids = <<>>
    /\ retry_batches = <<>>
    /\ poll_todo = <<>>
    /\ drain_todo = <<>>
    /\ batch_status = NoStatus
    /\ output_files = {}

\* split_text_into_chunks_with_tags has not been called.
ChunkIdle ==
    /\ max_tokens = 0
    /\ parts = <<>>
    /\ chunks = <<>>
    /\ current_chunk = <<>>
    /\ current_chunk_length = 0

\* Nothing has been downloaded or merged.
MergeIdle ==
    /\ max_tokens_per_request = 0
    /\ jsonl_files = <<>>
    /\ merged_data = <<>>
    /\ sorted_data = <<>>
    /\ outfile = <<>>

\* No text is being processed.
TextIdle ==
    /\ tpc = "idle"
    /\ input_text = <<>>
    /\ raw_data = <<>>
    /\ tag_dict = <<>>
    /\ restored = <<>>
    /\ ChunkIdle
    /\ MergeIdle

Init == OrchInit(NumFiles, MaxQuotaFailures) /\ PackIdle /\ TextIdle

AllStatuses == UNION {StatusResponses(j) : j \in 1..Len(jobs)}

\* A step of main().
OrchStep ==
    \/ \E lok, cok \in BOOLEAN : CreateNextBatch(lok, cok)
    \/ StartMonitor
    \/ MonitorLoop
    \/ \E status \in AllStatuses \cup {NoStatus} : CheckBatchStatus(status)
    \/ HandleStatus
    \/ \E dok \in BOOLEAN : DownloadResults(dok)
    \/ \E lok \in BOOLEAN : CheckRetry(lok)
    \/ \E cok \in BOOLEAN : RetryBatch(cok)

Next == OrchStep \/ \E j \in 1..Len(jobs) : RemoteProgress(j)

Spec == Init /\ [][Next]_vars

\* main() keeps running; the service finishes every job, and eventually
\* answers a status request and accepts a resubmission.
Fairness ==
    /\ WF_vars(OrchStep)
    /\ SF_vars(\E status \in AllStatuses : CheckBatchStatus(status))
    /\ SF_vars(RetryBatch(TRUE))
    /\ WF_vars(\E j \in 1..Len(jobs) : RemoteProgress(j))

LiveInit == OrchInit(LiveFiles, LiveQuotaFailures) /\ PackIdle /\ TextIdle

LiveSpec == LiveInit /\ [][Next]_vars /\ Fairness

\* file_to_jsonl enters "for chunk in text_chunks" (lines 107-111 done).
PackInit ==
    /\ fpc = "pack"
    /\ text_chunks \in SeqsUpTo(ChunkTokenCounts, MaxChunks)
    /\ system_tokens \in SystemTokenCounts
    /\ max_tokens_per_batch \in TokenBudgets
    /\ max_requests_per_file \in RequestCaps
    /\ current_batch_tokens = 0
    /\ current_batch_requests = <<>>
    /\ file_count = 1
    /\ request_count = 0
    /\ global_request_id = 1
    /\ batch_files = <<>>
    /\ OrchInit(0, 0)
    /\ TextIdle

PackNext == PackChunk \/ WriteLastFile

PackSpec == PackInit /\ [][PackNext]_vars

\* extract_html_tags and restore_img_tags applied to one text.
TagInit ==
    /\ tpc = "read"
    /\ input_text \in Texts
    /\ raw_data = <<>>
    /\ tag_dict = <<>>
    /\ restored = <<>>
    /\ ChunkIdle
    /\ MergeIdle
    /\ PackIdle
    /\ OrchInit(0, 0)

TagNext == ExtractTags \/ RestoreTags

TagSpec == TagInit /\ [][TagNext]_vars

\* split_text_into_chunks_with_tags applied to one text.
ChunkInit ==
    /\ tpc = "split"
    /\ input_text = <<>>
    /\ raw_data \in ChunkTexts
    /\ tag_dict = <<>>
    /\ restored = <<>>
    /\ max_tokens \in MaxTokens
    /\ parts = <<>>
    /\ chunks = <<>>
    /\ current_chunk = <<>>
    /\ current_chunk_length = 0
    /\ MergeIdle
    /\ PackIdle
    /\ OrchInit(0, 0)

ChunkNext == StartChunks \/ ChunkPart \/ LastChunk

ChunkSpec == ChunkInit /\ [][ChunkNext]_vars

\* jsonl_to_csv_manual applied to one output directory.
MergeInit ==
    /\ tpc = "downloaded"
    /\ input_text = <<>>
    /\ raw_data = <<>>
    /\ tag_dict = <<[key |-> TagId(1), tag |-> <<"\n">>]>>
    /\ restored = <<>>
    /\ ChunkIdle
    /\ max_tokens_per_request = 0
    /\ jsonl_files \in Directories
    /\ merged_data = <<>>
    /\ sorted_data = <<>>
    /\ outfile = <<>>
    /\ PackIdle
    /\ OrchInit(0, 0)

MergeNext == MergeJsonlFiles \/ WriteCsv

MergeSpec == MergeInit /\ [][MergeNext]_vars

\* One input file taken from file_to_jsonl to jsonl_to_csv_manual.
PipeInit ==
    /\ tpc = "read"
    /\ input_text \in FileTexts
    /\ raw_data = <<>>
    /\ tag_dict = <<>>
    /\ restored = <<>>
    /\ ChunkIdle
    /\ max_tokens_per_request \in RequestLimits
    /\ jsonl_files = <<>>
    /\ merged_data = <<>>
    /\ sorted_data = <<>>
    /\ outfile = <<>>
    /\ fpc = "packed"
    /\ text_chunks = <<>>
    /\ system_tokens \in SystemTokenCounts
    /\ max_tokens_per_batch = 0
    /\ max_requests_per_file = 0
    /\ current_batch_tokens = 0
    /\ current_batch_requests = <<>>
    /\ file_count = 1
    /\ request_count = 0
    /\ global_request_id = 1
    /\ batch_files = <<>>
    /\ OrchInit(0, 0)

PipeNext ==
    \/ ExtractTags
    \/ ChoosePath
    \/ StartChunks
    \/ ChunkPart
    \/ LastChunk
    \/ \E cut \in 0..Len(chunks), swapped, reversed \in BOOLEAN :
         EchoJobs(cut, swapped, reversed)
    \/ MergeJsonlFiles
    \/ WriteCsv

PipeSpec == PipeInit /\ [][PipeNext]_vars

(* ------------------------------- claims -------------------------------- *)

\* The job polled in this round of the for loop.
Polled == Head(poll_todo)

\* The orchestrator finishes handling the answer batch_status in this step.
Handles == pc = "handle" /\ pc' # "handle"

\* A job is created in this step.
Creates == Len(jobs') = Len(jobs) + 1

\* A job is created from a RetryQueue entry in this step.
RetryCreates == pc = "drain" /\ Creates

\* create_batch was called for a file and failed in this step.
AdmitCreateFails ==
    pc = "admit" /\ pending_files # <<>> /\ pending_files' = Tail(pending_files)
                 /\ jobs' = jobs

RetryCreateFails ==
    pc = "drain" /\ drain_todo # <<>> /\ drain_todo' = Tail(drain_todo)
                 /\ jobs' = jobs

\* A file is still tracked: pending, in the retry queue, or the input of a
\* job of the local active set.
Tracked(f, pend, ids, retry) ==
    \/ f \in Range(pend)
    \/ f \in Range(retry)
    \/ \E i \in 1..Len(ids) : jobs[ids[i]].file = f

FileIds == 1..(NumFiles + LiveFiles)

LiveFileIds == 1..LiveFiles

\* C1: at every point of a run at most K = 2 jobs created by the
\* orchestrator are in an active status.
AtMostKActive == Cardinality(ActiveJobs) <= K

\* C2 as claimed: every job created from a RetryQueue entry is created at an
\* instant when no job is in an active status.
RetryCreatedAtZeroActive == [][RetryCreates => ActiveJobs = {}]_vars

\* C2 amended: a drain pass starts only when the local active set is empty
\* and no job is in an active status; inside the pass each creation appends
\* the fresh job to the active set, and the only jobs that can be active at a
\* creation are the fresh jobs created earlier in the same pass.
DrainPassBarrier ==
    [][/\ (pc # "drain" /\ pc' = "drain") => (batch_ids = <<>> /\ ActiveJobs = {})
       /\ RetryCreates => /\ ActiveJobs \subseteq Range(batch_ids)
                          /\ batch_ids' = Append(batch_ids, Len(jobs'))
                          /\ (batch_ids = <<>> => ActiveJobs = {})
       /\ (pc = "drain" /\ ~Creates) => batch_ids' = batch_ids]_vars

\* C2 witness: inside a drain pass an entry is still to be resubmitted while
\* the fresh job of an earlier entry is active.
DrainPassSecondEntry ==
    pc = "drain" /\ drain_todo # <<>> /\ batch_ids # <<>> /\ ActiveJobs # {}

\* C3: a failed status with a token-limit message at any position puts the
\* input file id into RetryQueue and removes the job from the active set.
AnyQuotaMessageRequeued ==
    [][(Handles /\ batch_status.status = "failed"
          /\ IsQuotaFailure(batch_status.errors))
        => (/\ batch_status.input_file_id \in Range(retry_batches')
            /\ Polled \notin Range(batch_ids'))]_vars

\* C4: a failed status without a token-limit message removes the job, leaves
\* RetryQueue as it is and leaves the input file untracked; no job is ever
\* created for an untracked file, and a file enters RetryQueue only by a
\* failed status whose first message is the token-limit one.
OtherFailureTerminal ==
    [][/\ (Handles /\ batch_status.status = "failed"
             /\ ~IsQuotaFailure(batch_status.errors))
          => (/\ Polled \notin Range(batch_ids')
              /\ retry_batches' = retry_batches
              /\ ~Tracked(batch_status.input_file_id,
                          pending_files', batch_ids', retry_batches'))
       /\ \A f \in FileIds :
            ~Tracked(f, pending_files, batch_ids, retry_batches)
              => /\ ~(Creates /\ jobs'[Len(jobs')].file = f)
                 /\ f \notin Range(pending_files')
                 /\ f \notin Range(retry_batches')
       /\ \A f \in FileIds :
            (f \notin Range(retry_batches) /\ f \in Range(retry_batches'))
              => /\ Handles /\ batch_status.status = "failed"
                 /\ batch_status.input_file_id = f
                 /\ batch_status.errors # <<>>
                 /\ batch_status.errors[1] = TokenLimitMessage]_vars

\* C4 witness: a failure without token-limit message is being handled.
OtherFailureSeen ==
    /\ pc = "handle"
    /\ batch_status.status = "failed"
    /\ ~IsQuotaFailure(batch_status.errors)
    /\ Len(jobs) > 1

\* C5: under the fairness of LiveSpec the monitoring loop terminates, and it
\* terminates only with the active set and RetryQueue both empty.
MonitorTerminates ==
    /\ <>(pc = "done")
    /\ [](pc = "done" => (batch_ids = <<>> /\ retry_batches = <<>>))

\* C5 witness: the loop has ended after a quota failure made it resubmit.
DoneAfterRetry == pc = "done" /\ Len(jobs) > LiveFiles

\* C6: a file id in RetryQueue is eventually removed from it, it leaves the
\* queue only in the drain step that created a fresh validating job from it
\* and put that job into the active set, and a drain pass is entered only
\* with an empty active set.
RetryEventuallyResubmitted ==
    /\ \A f \in LiveFileIds :
         (f \in Range(retry_batches)) ~> (f \notin Range(retry_batches))
    /\ [][/\ \A f \in FileIds :
               (f \in Range(retry_batches) /\ f \notin Range(retry_batches'))
                 => /\ pc = "drain"
                    /\ jobs' = Append(jobs, [file |-> f, status |-> "validating"])
                    /\ batch_ids' = Append(batch_ids, Len(jobs'))
          /\ (pc # "drain" /\ pc' = "drain") => batch_ids = <<>>]_vars

\* C6 witness: a fresh job exists for the input file of a failed job.
ResubmittedJob ==
    \E i, j \in 1..Len(jobs) :
        i < j /\ jobs[i].file = jobs[j].file /\ jobs[i].status = "failed"

\* C7: a completed status never changes RetryQueue; with an output file id
\* the download is requested, once, and the job leaves the active set when
\* it returns; without one the job leaves the active set and nothing is
\* downloaded or written; a download is requested for nothing else; only
\* jobs of the active set are polled and a removed job never comes back.
CompletedHandled ==
    [][/\ (Handles /\ batch_status.status = "completed")
          => /\ retry_batches' = retry_batches
             /\ IF batch_status.output_file_id # 0
                THEN pc' = "download" /\ batch_status' = batch_status
                ELSE /\ pc' = "poll"
                     /\ Polled \notin Range(batch_ids')
                     /\ Polled \notin Range(poll_todo')
                     /\ output_files' = output_files
       /\ (pc # "download" /\ pc' = "download")
          => /\ Handles /\ batch_status.status = "completed"
             /\ batch_status.output_file_id # 0
       /\ (pc = "download" /\ pc' # "download")
          => /\ pc' = "poll"
             /\ Polled \notin Range(batch_ids')
             /\ Polled \notin Range(poll_todo')
             /\ retry_batches' = retry_batches
             /\ output_files' \subseteq output_files \cup {Polled}
       /\ (pc = "poll" /\ pc' = "handle") => Polled \in Range(batch_ids)
       /\ \A j \in 1..Len(jobs) :
            j \notin Range(batch_ids) => j \notin Range(batch_ids')]_vars

\* C7 witness: the output of a completed job is being downloaded.
DownloadRequested ==
    pc = "download" /\ batch_status.status = "completed"
                    /\ batch_status.output_file_id = Polled

\* C8: a completed job with an output file id leaves the active set only
\* with its output downloaded.
DownloadResultInspected ==
    [][(pc = "download" /\ Polled \notin Range(batch_ids'))
         => Polled \in output_files']_vars

\* C9: after create_batch failed for a file, the file is not queued for
\* another create_batch call, neither in admission nor in a drain pass.
CreateFailureTerminal ==
    [][/\ AdmitCreateFails
          => /\ Head(pending_files) \notin Range(pending_files')
             /\ Head(pending_files) \notin Range(retry_batches')
       /\ RetryCreateFails
          => /\ Head(drain_todo) \notin Range(pending_files')
             /\ Head(drain_todo) \notin Range(retry_batches')]_vars

\* C10: every batch file written by file_to_jsonl costs at most
\* max_tokens_per_batch tokens and holds at most max_requests_per_file
\* requests.
FilesWithinLimits ==
    \A n \in DOMAIN batch_files :
        /\ FileTokens(batch_files[n]) <= max_tokens_per_batch
        /\ Len(batch_files[n]) <= max_requests_per_file

\* The requests of the written batch files, in file order and in line order
\* inside each file.
RECURSIVE WrittenRequests(_, _)
WrittenRequests(files, n) ==
    IF n = 0 THEN <<>>
    ELSE WrittenRequests(files, n - 1) \o (IF n \in DOMAIN files THEN files[n] ELSE <<>>)

\* The written requests followed by those still held for the open file.
RequestsSoFar(files, held, at) ==
    WrittenRequests(files, Len(files)) \o (IF at = "pack" THEN held ELSE <<>>)

\* C11: the custom_id numbers of the requests, read across the batch files
\* in file order, are 1, 2, 3, ... without gap, repeat or restart, and the
\* requests hold the chunks in chunk order, one request per chunk.
CustomIdsSequential ==
    [][LET before == RequestsSoFar(batch_files, current_batch_requests, fpc)
           after == RequestsSoFar(batch_files', current_batch_requests', fpc')
       IN /\ \A i \in 1..Len(after) : after[i].custom_id = i
          /\ [i \in 1..Len(after) |-> after[i].chunk_tokens] \o text_chunks'
               = [i \in 1..Len(before) |-> before[i].chunk_tokens] \o text_chunks
          /\ fpc' = "packed" =>
               /\ text_chunks' = <<>>
               /\ after = WrittenRequests(batch_files', Len(batch_files'))]_vars

\* C11 witness: all chunks are packed into several batch files, the last of
\* them opened after request 2.
SeveralFilesWritten ==
    /\ fpc = "packed"
    /\ Len(batch_files) >= 2
    /\ Len(batch_files[1]) >= 2
    /\ Len(batch_files[Len(batch_files)]) >= 1

\* C18: in admission create_batch is called (the next file is popped) only
\* when fewer than K jobs are active, which is what a listing that succeeded
\* and reported fewer than 2 active jobs means.
AdmitsOnlyBelowK ==
    [][(pc = "admit" /\ pending_files # <<>>
          /\ pending_files' = Tail(pending_files))
        => Cardinality(ActiveJobs) < K]_vars

\* Occurrences of x in the list s.
Count(s, x) == Cardinality({i \in 1..Len(s) : s[i] = x})

\* C19: an entry leaves RetryQueue only in the drain step in which
\* create_batch succeeded for it and the fresh job id was appended to the
\* active set; a failed create_batch in a drain pass leaves RetryQueue and
\* the active set as they are.
RetryEntryLeavesOnSuccess ==
    [][/\ \A f \in FileIds :
            Count(retry_batches', f) < Count(retry_batches, f)
              => /\ pc = "drain"
                 /\ f = Head(drain_todo)
                 /\ jobs' = Append(jobs, [file |-> f, status |-> "validating"])
                 /\ batch_ids' = Append(batch_ids, Len(jobs'))
                 /\ retry_batches' = Remove(retry_batches, f)
       /\ RetryCreateFails
            => retry_batches' = retry_batches /\ batch_ids' = batch_ids]_vars

\* C19 witness: a drain pass has ended with every create_batch failed, the
\* entries still queued.
DrainPassFailed == pc = "loop" /\ batch_ids = <<>> /\ retry_batches # <<>>

\* Jobs of the local active set created from file f.
JobsOf(f) == {i \in 1..Len(batch_ids) : jobs[batch_ids[i]].file = f}

\* C20: every input file id has at most one representative among the jobs
\* of the active set and the entries of RetryQueue.
OneRepresentativePerFile ==
    \A f \in FileIds : Cardinality(JobsOf(f)) + Count(retry_batches, f) <= 1

\* C20 witness: a resubmitted job is in the active set while another file
\* waits in RetryQueue.
ResubmittedBesideQueued ==
    /\ retry_batches # <<>>
    /\ \E i \in 1..Len(batch_ids) : batch_ids[i] > NumFiles

(* ------------------------------- C14, C15 ------------------------------ *)

\* C14: restoring the text masked by extract_html_tags with the dictionary it
\* built gives back the original text exactly, for every text of plain text
\* and spans, also when the dictionary holds ten or more ids.
RestoreInvertsExtract ==
    tpc = "restored" => restored = input_text

\* The spans of a text from position i on, in the order the pattern finds
\* them.
RECURSIVE Matches(_, _)
Matches(s, i) ==
    LET found == {j \in i..Len(s) : MatchLen(s, j) > 0} IN
    IF found = {} THEN <<>>
    ELSE <<SubSeq(s, Min(found), Min(found) + MatchLen(s, Min(found)) - 1)>>
           \o Matches(s, Min(found) + MatchLen(s, Min(found)))

FirstIndex(seq, x) ==
    CHOOSE k \in 1..Len(seq) : seq[k] = x /\ \A m \in 1..(k - 1) : seq[m] # x

\* The text with every span replaced by the key that dict holds for it.
RECURSIVE MaskedWith(_, _, _)
MaskedWith(s, i, dict) ==
    LET found == {j \in i..Len(s) : MatchLen(s, j) > 0} IN
    IF found = {} THEN SubSeq(s, i, Len(s))
    ELSE LET at == Min(found)
             n == MatchLen(s, at)
             k == CHOOSE k \in 1..Len(dict) : dict[k].tag = SubSeq(s, at, at + n - 1)
         IN SubSeq(s, i, at - 1) \o dict[k].key \o MaskedWith(s, at + n, dict)

\* C15: after extract_html_tags the ids of the dictionary are exactly 1..n,
\* given in the order in which the distinct spans first occur; no two ids
\* hold the same span; every occurrence of a span is replaced by the id its
\* first occurrence was given.
IdsSequentialByFirstOccurrence ==
    tpc = "masked" =>
      LET spans == Matches(input_text, 1)
          n == Len(tag_dict)
      IN /\ \A k \in 1..n : tag_dict[k].key = TagId(k)
         /\ {TagNumber(tag_dict[k]) : k \in 1..n} = 1..n
         /\ \A k, m \in 1..n : k # m => tag_dict[k].tag # tag_dict[m].tag
         /\ {tag_dict[k].tag : k \in 1..n} = Range(spans)
         /\ \A k, m \in 1..n :
              k < m => FirstIndex(spans, tag_dict[k].tag)
                         < FirstIndex(spans, tag_dict[m].tag)
         /\ raw_data = MaskedWith(input_text, 1, tag_dict)

\* C15 witness: a text with a repeated span, masked with ten or more ids.
RepeatedSpanMasked ==
    /\ tpc = "masked"
    /\ Len(tag_dict) >= 10
    /\ Len(Matches(input_text, 1)) > Len(tag_dict)

(* ------------------------------- C12, C13 ------------------------------ *)

\* The text and placeholder parts of s, without the empty ones.
RECURSIVE NonEmpty(_)
NonEmpty(ps) ==
    IF ps = <<>> THEN <<>>
    ELSE IF Head(ps) = <<>> THEN NonEmpty(Tail(ps))
    ELSE <<Head(ps)>> \o NonEmpty(Tail(ps))

PartsOf(s) == NonEmpty(ReSplit(s))

\* C12: every chunk returned has a token count of at most 90% of max_tokens,
\* unless it is a single text run or a single placeholder; this holds for
\* the chunks that start with the moved continuation placeholder too.
ChunksWithinThreshold ==
    tpc = "chunked" =>
      \A k \in 1..Len(chunks) :
        \/ ~OverThreshold(CountTokens(chunks[k]), max_tokens)
        \/ Len(PartsOf(chunks[k])) <= 1

\* C13: the chunks partition the input: their parts, taken chunk after
\* chunk, are the parts of the input, each whole and once, in input order.
ChunksPartitionInput ==
    tpc = "chunked" =>
      Flatten([k \in 1..Len(chunks) |-> PartsOf(chunks[k])]) = PartsOf(raw_data)

(* --------------------------------- C16 --------------------------------- *)

\* The number n of the custom id "request-n".
RequestNumber(custom_id) == CHOOSE n \in 0..99 : RequestId(n) = custom_id

\* The response lines of a directory.
ResponseLines(files) ==
    UNION {{files[f][k] : k \in {k \in 1..Len(files[f]) :
                                   files[f][k].choices # <<>>}} :
             f \in 1..Len(files)}

\* The members of a set of numbers in ascending order.
Ascending(S) ==
    CHOOSE q \in [1..Cardinality(S) -> S] :
      \A k, m \in 1..Cardinality(S) : k < m => q[k] < q[m]

\* C16: whatever files the response lines lie in and whatever their order,
\* jsonl_to_csv_manual writes their contents, restored, in ascending order
\* of the number in the custom_id, so request-2 comes before request-10.
WrittenInNumericOrder ==
    tpc = "written" =>
      LET lines == ResponseLines(jsonl_files)
          order == Ascending({RequestNumber(l.custom_id) : l \in lines})
          LineOf(n) == CHOOSE l \in lines : RequestNumber(l.custom_id) = n
      IN /\ Len(sorted_data) = Len(order)
         /\ \A k \in 1..Len(order) :
              sorted_data[k].custom_id = RequestId(order[k])
         /\ outfile = Flatten([k \in 1..Len(order) |->
                                 RestoreImgTags(LineOf(order[k]).choices[1].content,
                                                tag_dict)])

\* C16 witness: written from two files in which request-10 is read before
\* request-2.
TenReadBeforeTwo ==
    /\ tpc = "written"
    /\ jsonl_files[2] # <<>>
    /\ jsonl_files[3] # <<>>
    /\ merged_data[1].custom_id = RequestId(10)
    /\ \E k \in 2..Len(merged_data) : merged_data[k].custom_id = RequestId(2)

(* --------------------------------- C17 --------------------------------- *)

\* C17: with a service that returns every request's content as it was, the
\* text that jsonl_to_csv_manual writes is the text of the input file, both
\* when the text fits in one request and when it is split into chunks.
RoundTripExact ==
    tpc \in {"written", "crashed"} =>
      /\ tpc = "written"
      /\ outfile = input_text

(* --------------------------------- C21 --------------------------------- *)

\* C21: split_text_into_chunks_with_tags never returns an empty chunk, also
\* when the first part alone exceeds the threshold and when the chunk being
\* sealed holds nothing but the continuation placeholder.
NoEmptyChunk ==
    tpc = "chunked" => \A k \in 1..Len(chunks) : chunks[k] # <<>>

====
